---------------------------- MODULE Spec2Model ----------------------------
(***************************************************************************)
(* A model of dvd-vr.c: main from the check of the IFO identifier to its   *)
(* return (the tables found through stored offsets, the program filter,    *)
(* the per-program loop with the label look-up, the name and the creation  *)
(* of the output file, the VobuMap, the loop over the VOBU size records    *)
(* with stream_data and its fault handling, the size line), and the        *)
(* decoders find_program_text_info, parse_pgtm and parse_video_attr, which *)
(* are also applied on their own.                                          *)
(*                                                                         *)
(* File offsets (off_t, 64 bits) are kept as records [sec, off] standing   *)
(* for sec * 2048 + off with 0 <= off < 2048, because the byte values of   *)
(* interest (around 2^32) do not fit the model checker's integers.         *)
(*                                                                         *)
(* The contents of the IFO buffer are inputs.  Fields that main reads once *)
(* per program (timestamp, VobuMap, VOBU size records) are drawn when the  *)
(* code first reads them; data read for every program (options, header     *)
(* fields, program count, per-program offsets, program-set table, the      *)
(* files already in the directory) is drawn in Init.  Addresses are byte   *)
(* offsets from the start of the mapped buffer.                            *)
(***************************************************************************)
EXTENDS Integers, Sequences, FiniteSets, TLC

\* ------------------------------------------------------------------ bounds
MaxPrograms == 2
MaxVobus == 2
MaxPsi == 2

\* --------------------------------------------------------- program constants
DVD_SECTOR_SIZE == 2048
VobuSizeMask == 1023
FirstProgIdUnset == 65535
VobBaseSize == 32

\* uint32_t and uint16_t arithmetic
U16 == 65536
\* 2^32 / DVD_SECTOR_SIZE: the number of sectors at which a 32-bit byte count wraps
SectorsPerU32 == 2^21

\* --------------------------------------------------------------- off_t
OffT(sec, off) == [sec |-> sec, off |-> off]

OffAdd(a, b) ==
    LET o == a.off + b.off
    IN  OffT(a.sec + b.sec + (o \div DVD_SECTOR_SIZE), o % DVD_SECTOR_SIZE)

OffSub(a, b) ==
    LET o == a.off - b.off
    IN  IF o >= 0 THEN OffT(a.sec - b.sec, o)
                  ELSE OffT(a.sec - b.sec - 1, o + DVD_SECTOR_SIZE)

OffZero == OffT(0, 0)

\* ----------------------------------------------------- byte order, bit masks
RECURSIVE BitAnd(_, _)
BitAnd(a, b) ==
    IF a = 0 \/ b = 0 THEN 0
    ELSE (a % 2) * (b % 2) + 2 * BitAnd(a \div 2, b \div 2)

\* *(uint16_t*)p on a little-endian (le) or big-endian host, p[0] = b0, p[1] = b1
HostLoad16(le, b0, b1) == IF le THEN b0 + 256 * b1 ELSE 256 * b0 + b1

ntohs(le, x) == IF le THEN (x % 256) * 256 + (x \div 256) ELSE x

\* The hosts the program is built for
Hosts == {TRUE, FALSE}

\* NTOHS of the uint16_t at p: the same value on every host
Load16BE(b0, b1) == CHOOSE v \in {ntohs(le, HostLoad16(le, b0, b1)) : le \in Hosts} : TRUE

\* uint16_t vobu_size = *(uint16_t*)(&vobu_info->vobu_info[1]); NTOHS; &= 0x03FF
VobuSize(rec) == BitAnd(Load16BE(rec[2], rec[3]), VobuSizeMask)

\* tot+=vobu_size;
TotLastOnly(t, vobu_size) == vobu_size

TotAdd(t, vobu_size) == t + vobu_size

\* lseek(vro_fd, vobu_map->vob_offset*DVD_SECTOR_SIZE, SEEK_SET): the product of a
\* uint32_t and an int is a uint32_t, so it is taken modulo 2^32 before it
\* becomes an off_t:  (v * 2048) mod 2^32 = (v mod 2^21) * 2048.
VobSeekOffset(vob_offset) == OffT(vob_offset % SectorsPerU32, 0)

\* ------------------------------------------------------------ stream_data
\* A fault script for one call: none, or the read / write of block `block`
\* returns n instead of block_size (n = -1: error, 0 <= n < 2048: short).
NoFault == [kind |-> "none", block |-> 0, n |-> 0]

ReadResults == {-1, 0, 1}
WriteResults == {-1, 1}

Faults(blocks) ==
    {NoFault}
    \cup [kind : {"read"}, block : 0 .. blocks - 1, n : ReadResults]
    \cup [kind : {"write"}, block : 0 .. blocks - 1, n : WriteResults]

Max0(n) == IF n > 0 THEN n ELSE 0

\* What was read from `at` and written: a chunk of len bytes of the source.
Chunk(at, len) == [at |-> at, len |-> len]

\* for (block=0; block<blocks; block++) { read; if (bytes_read != bs) return -1;
\*                                         if (write != bs) return -2; } return 0;
RECURSIVE StreamLoop(_, _, _, _, _)
StreamLoop(block, blocks, pos, out, fault) ==
    IF block >= blocks THEN [ret |-> 0, pos |-> pos, out |-> out]
    ELSE IF fault.kind = "read" /\ fault.block = block
         THEN [ret |-> -1, pos |-> OffAdd(pos, OffT(0, Max0(fault.n))), out |-> out]
    ELSE IF fault.kind = "write" /\ fault.block = block
         THEN [ret |-> -2,
               pos |-> OffAdd(pos, OffT(1, 0)),
               out |-> IF fault.n > 0 THEN Append(out, Chunk(pos, fault.n)) ELSE out]
    ELSE StreamLoop(block + 1, blocks, OffAdd(pos, OffT(1, 0)),
                    Append(out, Chunk(pos, DVD_SECTOR_SIZE)), fault)

\* stream_data, were it to write what a short read returned
StreamDataWritesShortRead(pos, out, blocks, fault) ==
    LET r == StreamLoop(0, blocks, pos, out, fault)
    IN  IF r.ret = -1 /\ fault.n > 0
        THEN [r EXCEPT !.out = Append(out, Chunk(r.pos, fault.n))]
        ELSE r

stream_data(pos, out, blocks, fault) == StreamLoop(0, blocks, pos, out, fault)

\* if (ret == -2) exit(EXIT_FAILURE);
StreamRetExitsOnAnyFault(ret) == ret < 0
StreamRetNeverExits(ret) == FALSE

StreamRetExits(ret) == ret = -2

\* off_t skip_len = (curr_offset + vobu_size*DVD_SECTOR_SIZE) - new_offset;
SkipLenNone(curr_offset, vobu_size, new_offset) == OffZero

SkipLen(curr_offset, vobu_size, new_offset) ==
    OffSub(OffAdd(curr_offset, OffT(vobu_size, 0)), new_offset)

\* ------------------------------------------------- find_program_text_info
\* A program-set entry: [first_prog_id, nr_of_programs], both uint16_t.
PsiEntry(first, n) == [first_prog_id |-> first, nr_of_programs |-> n]

InProgSetStrict(program, start_prog_num, end_prog_num) ==
    program > start_prog_num /\ program <= end_prog_num

InProgSet(program, start_prog_num, end_prog_num) ==
    program >= start_prog_num /\ program <= end_prog_num

\* The loop from entry ps (1-based here) with the running program_count;
\* the result is the index of the entry returned, 0 for NULL.
RECURSIVE FindLoop(_, _, _, _)
FindLoop(psi_gi, program, ps, program_count) ==
    IF ps > Len(psi_gi) THEN 0
    ELSE
      LET stored   == psi_gi[ps].first_prog_id
          inferred == stored = 0 \/ stored = FirstProgIdUnset
          start    == IF inferred THEN (program_count + 1) % U16 ELSE stored
          count    == IF inferred
                      THEN (program_count + psi_gi[ps].nr_of_programs) % U16
                      ELSE program_count
          end      == (start + psi_gi[ps].nr_of_programs - 1) % U16
      IN  IF InProgSet(program, start, end) THEN ps
          ELSE FindLoop(psi_gi, program, ps + 1, count)

find_program_text_info(psi_gi, program) == FindLoop(psi_gi, program, 1, 0)

\* ------------------------------------------------------------ file names
\* Strings are sequences of one-character strings; a formatted timestamp
\* (strftime with TIMESTAMP_FMT, 19 characters) is kept as one token.
TIMESTAMP_FMT == <<"%F_%T">>
Dash == <<"-">>
ShortName == <<"v">>
\* a base name of 28 characters, kept as one token
LongName == <<"a_base_name_of_28_characters">>

\* Decoded timestamps: NotSet stands for a zero year, the others index Stamps;
\* now_tm, the time of the run, is Stamps[NowTm].
NotSet == 0
Stamps == <<"2008-01-01_10:00:00">>
NowTm == Len(Stamps)
Timestamps == {NotSet} \cup (1 .. Len(Stamps))

\* bool ts_ok = parse_pgtm(vvob->vob_timestamp, &tm): false when the year is 0
parse_pgtm(ts) == ts # NotSet

strftime(tm) == <<Stamps[tm]>>

Digits == <<"0", "1", "2", "3", "4", "5", "6", "7", "8", "9">>
Digit(d) == Digits[d + 1]

\* "#%03d"
Fmt03d(n) ==
    IF n < 1000
    THEN <<"#", Digit(n \div 100), Digit((n \div 10) % 10), Digit(n % 10)>>
    ELSE <<"#", Digit(n \div 1000), Digit((n \div 100) % 10),
           Digit((n \div 10) % 10), Digit(n % 10)>>

VobSuffix == <<".vob">>

\* strlen
TokenLen(t) ==
    IF t \in {Stamps[i] : i \in DOMAIN Stamps} THEN 19
    ELSE IF t = LongName[1] THEN 28
    ELSE IF t = VobSuffix[1] THEN 4
    ELSE 1

RECURSIVE strlen(_)
strlen(s) == IF s = <<>> THEN 0 ELSE TokenLen(Head(s)) + strlen(Tail(s))

\* The names main builds for program number n (1-based)
VobBase(base, ts, n) ==
    IF base = TIMESTAMP_FMT
    THEN IF parse_pgtm(ts) THEN strftime(ts) ELSE strftime(NowTm) \o Fmt03d(n)
    ELSE base \o Fmt03d(n)

FirstName(vb) == vb \o VobSuffix
RetryName(vb, n) == vb \o Fmt03d(n) \o VobSuffix

\* ------------------------------------------------------------ directory
\* files: name -> the sequence of those who opened it for writing; 0 stands
\* for whoever made a file that was there before the run.
NoFiles == [name \in {} |-> <<>>]

OpenNoExcl(fs, name, who) ==
    IF name \in DOMAIN fs
    THEN [ok |-> TRUE, eexist |-> FALSE, fs |-> [fs EXCEPT ![name] = Append(@, who)]]
    ELSE [ok |-> TRUE, eexist |-> FALSE,
          fs |-> [x \in DOMAIN fs \cup {name} |-> IF x = name THEN <<who>> ELSE fs[x]]]

\* open(vob_name, O_WRONLY|O_CREAT|O_EXCL, 0666) where no other error strikes
OpenExcl(fs, name, who) ==
    IF name \in DOMAIN fs
    THEN [ok |-> FALSE, eexist |-> TRUE, fs |-> fs]
    ELSE [ok |-> TRUE, eexist |-> FALSE,
          fs |-> [x \in DOMAIN fs \cup {name} |-> IF x = name THEN <<who>> ELSE fs[x]]]

\* One open() call as opens records it
Opened(name, o) ==
    [name |-> name,
     errno |-> IF o.ok THEN "" ELSE IF o.eexist THEN "EEXIST" ELSE "EACCES"]

\* if (vob_fd == -1 && errno == EEXIST && base_name == TIMESTAMP_FMT)
RetryAlways(vob_fd_ok, eexist, base) == ~vob_fd_ok /\ eexist

RetryOpen(vob_fd_ok, eexist, base) == ~vob_fd_ok /\ eexist /\ base = TIMESTAMP_FMT

\* ------------------------------------------------------- shifts and masks
ShiftR(x, k) == x \div (2 ^ k)
ShiftL(x, k) == x * (2 ^ k)

RECURSIVE BitOr(_, _)
BitOr(a, b) ==
    IF a = 0 THEN b
    ELSE IF b = 0 THEN a
    ELSE (IF a % 2 = 1 \/ b % 2 = 1 THEN 1 ELSE 0) + 2 * BitOr(a \div 2, b \div 2)

\* a value stored in a uint8_t
U8(x) == x % 256

\* ------------------------------------------------------------- parse_pgtm
\* The decoding of the five bytes pgtm.pgtm[0..4] (p[1..5] here)
PgtmYear(p)  == ShiftR(BitOr(ShiftL(p[1], 8), p[2]), 2) % U16
PgtmMonth(p) == U8(BitOr(ShiftL(BitAnd(p[2], 3), 2), ShiftR(p[3], 6)))
PgtmDayUnshifted(p) == U8(BitAnd(p[3], 62))
PgtmDay(p)   == U8(ShiftR(BitAnd(p[3], 62), 1))
PgtmHour(p)  == U8(BitOr(ShiftL(BitAnd(p[3], 1), 4), ShiftR(p[4], 4)))
PgtmMin(p)   == U8(BitOr(ShiftL(BitAnd(p[4], 15), 2), ShiftR(p[5], 6)))
PgtmSec(p)   == U8(BitAnd(p[5], 63))

\* struct tm as parse_pgtm leaves it; the tm of the caller is uninitialized
\* when the year is 0, and no caller reads it then
TmUnset == [tm_year |-> 0, tm_mon |-> 0, tm_mday |-> 0,
            tm_hour |-> 0, tm_min |-> 0, tm_sec |-> 0]

\* bool parse_pgtm(pgtm_t pgtm, struct tm* tm): [ret, tm]
PgtmDecode(p) ==
    IF PgtmYear(p) # 0
    THEN [ret |-> TRUE,
          tm  |-> [tm_year |-> PgtmYear(p) - 1900,
                   tm_mon  |-> PgtmMonth(p) - 1,
                   tm_mday |-> PgtmDay(p),
                   tm_hour |-> PgtmHour(p),
                   tm_min  |-> PgtmMin(p),
                   tm_sec  |-> PgtmSec(p)]]
    ELSE [ret |-> FALSE, tm |-> TmUnset]

\* ------------------------------------------------------- parse_video_attr
\* switch (tv_sys): the name printed and vert_resolution, or the default
TvSystemAnyCode(tv_sys) ==
    IF tv_sys = 0 THEN [ok |-> TRUE, name |-> "NTSC", vert |-> 480]
    ELSE [ok |-> TRUE, name |-> "PAL", vert |-> 576]

TvSystem(tv_sys) ==
    IF tv_sys = 0 THEN [ok |-> TRUE, name |-> "NTSC", vert |-> 480]
    ELSE IF tv_sys = 1 THEN [ok |-> TRUE, name |-> "PAL", vert |-> 576]
    ELSE [ok |-> FALSE, name |-> "", vert |-> 0]

\* switch (resolution): horiz_resolution and the new vert_resolution
Resolution(resolution, vert) ==
    IF resolution = 0 THEN [horiz |-> 720, vert |-> vert]
    ELSE IF resolution = 1 THEN [horiz |-> 704, vert |-> vert]
    ELSE IF resolution = 2 THEN [horiz |-> 352, vert |-> vert]
    ELSE IF resolution = 3 THEN [horiz |-> 352, vert |-> vert \div 2]
    ELSE IF resolution = 4 THEN [horiz |-> 544, vert |-> vert]
    ELSE IF resolution = 5 THEN [horiz |-> 480, vert |-> vert]
    ELSE [horiz |-> 0, vert |-> vert]

\* bool parse_video_attr(uint16_t video_attr): the return value and what the
\* tv_system and resolution lines say ("" where the line is not printed)
parse_video_attr(video_attr) ==
    LET resolution == ShiftR(BitAnd(video_attr, 56), 3)
        tv_sys     == ShiftR(BitAnd(video_attr, 12288), 12)
        tv         == TvSystem(tv_sys)
        res        == Resolution(resolution, tv.vert)
    IN  IF ~tv.ok
        THEN [ret |-> FALSE, tv_system |-> "", resolution |-> "", horiz |-> 0, vert |-> 0]
        ELSE IF res.horiz # 0 /\ res.vert # 0
        THEN [ret |-> TRUE, tv_system |-> tv.name, resolution |-> "known",
              horiz |-> res.horiz, vert |-> res.vert]
        ELSE [ret |-> TRUE, tv_system |-> tv.name, resolution |-> "Unknown",
              horiz |-> 0, vert |-> 0]

\* ------------------------------------------------------- the IFO identifier
NUL == "\\0"
IdSize == 12

\* "DVD_RTR_VMG0" as the string literal it is, with its terminator
MagicLiteral == <<"D", "V", "D", "_", "R", "T", "R", "_", "V", "M", "G", "0", NUL>>

\* strncmp(s1, s2, n) from character i on: 0 when equal
RECURSIVE StrncmpFrom(_, _, _, _)
StrncmpFrom(s1, s2, i, n) ==
    IF i > n THEN 0
    ELSE IF s1[i] # s2[i] THEN 1
    ELSE IF s1[i] = NUL THEN 0
    ELSE StrncmpFrom(s1, s2, i + 1, n)

strncmp(s1, s2, n) == StrncmpFrom(s1, s2, 1, n)

\* !strncmp("DVD_RTR_VMG0", rtav_vmgi_ptr->mat.id, sizeof(rtav_vmgi_ptr->mat.id))
IdMatchesButLast(id) == strncmp(MagicLiteral, id, IdSize - 1) = 0

IdMatches(id) == strncmp(MagicLiteral, id, IdSize) = 0

\* ------------------------------------------------- in-place byte order fixes
RECURSIVE Reverse(_)
Reverse(s) == IF s = <<>> THEN <<>> ELSE Append(Reverse(Tail(s)), Head(s))

RECURSIVE BigEndian(_)
BigEndian(bytes) ==
    IF bytes = <<>> THEN 0
    ELSE Head(bytes) * 256 ^ (Len(bytes) - 1) + BigEndian(Tail(bytes))

\* what the host reads from the bytes of an integer field
HostValue(le_host, bytes) ==
    IF le_host THEN BigEndian(Reverse(bytes)) ELSE BigEndian(bytes)

\* NTOHS(x) / NTOHL(x), x=ntohs(x): the bytes of the field afterwards
NtohInPlace(le_host, bytes) == IF le_host THEN Reverse(bytes) ELSE bytes

\* ------------------------------------------------------ sizes of the tables
SizeofRtavVmgi == 512
SizeofPgiti == 8
SizeofVobFormat == 60
SizeofPgiGi == 2
SizeofVvobiSa == 4
SizeofVvob == 21
SizeofAdjVob == 12
SizeofVobuMap == 10
SizeofTimeInfo == 7
SizeofVobuInfo == 3
SizeofPsiGi == 4
SizeofPsi == 142

\* pointer arithmetic of main, addresses counted from the start of the buffer
\* pgiti = (char*)rtav_vmgi_ptr + pgit_sa; def_psi_gi likewise
FromBuffer(sa) == 0 + sa

\* vob_format = pgiti+1; pgi_gi = vob_format + nr_of_vob_formats;
\* vvobi_sa = pgi_gi+1
VvobiSaTable(pgiti_at, vob_types) ==
    pgiti_at + SizeofPgiti + vob_types * SizeofVobFormat + SizeofPgiGi

\* vvob = ((uint8_t*)pgiti) + *vvobi_sa
VvobFromBuffer(pgiti_at, sa) == FromBuffer(sa)

VvobAt(pgiti_at, sa) == pgiti_at + sa

\* vobu_map = ((uint8_t*)(vvob+1)) + skip
VobuMapAt(vvob_at, vob_attr) ==
    vvob_at + SizeofVvob
    + (IF BitAnd(vob_attr, 128) # 0 THEN SizeofAdjVob ELSE 0) + 2

\* vobu_info = ((uint8_t*)(vobu_map+1)) + nr_of_time_info*sizeof(time_info_t)
VobuInfoAt(vobu_map_at, nr_of_time_info) ==
    vobu_map_at + SizeofVobuMap + nr_of_time_info * SizeofTimeInfo

\* vvobi_sa++ of a program that the filter passes over
SkipEntryStays(at) == at

SkipEntry(at) == at + SizeofVvobiSa

\* ------------------------------------------------------------------ state
VARIABLES
    pc,               \* where main is
    required_program, \* -p NUM, 0 for all programs
    base_name,        \* -n NAME, TIMESTAMP_FMT by default
    vro_fd,           \* -1 when no VRO file was given
    nr_of_programs,   \* pgi_gi->nr_of_programs
    def_psi_gi,       \* the default program-set table
    ifo,              \* the other stored fields of the IFO file
    le,               \* the host is little-endian
    files,            \* the directory the vob files are created in
    stdinfo,          \* "stdout" or "stderr", "" before main sets it
    stdout,           \* what was written to standard output: [kind, program]
    stderr,           \* what was written to standard error:  [kind, program]
    vmg_size,         \* the size of the mapped buffer
    pgiti,            \* the address of the program-info table
    vvobi_sa,         \* the address of the current per-program offset
    outside,          \* the tables read or written beyond the mapped buffer
    vvob_mem,         \* descriptor address -> its bytes in memory now
    vobu_map_mem,     \* VobuMap address -> its bytes in the file and in memory now
    program,          \* the loop index of main, 0-based
    psi,              \* what find_program_text_info returned, 0 for NULL
    vvob,             \* the address of the descriptor of the program
    tm,               \* the decoded vob_timestamp
    vob_base,
    vob_name,
    vob_fd,           \* -1, 1 for fileno(stdout), 5 for a created file
    opens,            \* the open() calls of this program: [name, errno]
    vobu_map,         \* [nr_of_vobu_info, vob_offset]
    vobu_info,        \* the address of the current VOBU size record
    vobus,            \* the loop index over the VOBU size records
    tot,
    error,
    ret,              \* what the last stream_data call returned
    vro_pos,          \* the file position of vro_fd
    start_pos,        \* the position the program's extraction began at
    infos,            \* the VOBU size records read so far for this program
    dst,              \* what was written to vob_fd for this program
    lines,            \* what this program printed on stdinfo
    percent,          \* what the progress display on stderr shows
    exit_status,
    arg,              \* the argument of a decoder applied on its own
    result            \* and what it returned

vars == <<pc, required_program, base_name, vro_fd, nr_of_programs, def_psi_gi,
          ifo, le, files, stdinfo, stdout, stderr, vmg_size, pgiti, vvobi_sa,
          outside, vvob_mem, vobu_map_mem, program, psi, vvob, tm, vob_base,
          vob_name, vob_fd, opens, vobu_map, vobu_info, vobus, tot, error, ret,
          vro_pos, start_pos, infos, dst, lines, percent, exit_status, arg,
          result>>

options == <<required_program, base_name, vro_fd, nr_of_programs, def_psi_gi,
             ifo, le, arg>>
naming  == <<tm, vob_base, vob_name, vob_fd, opens>>
copying == <<vobu_map, vobus, tot, error, ret, vro_pos, start_pos, infos, dst>>
tables  == <<stdinfo, vmg_size, pgiti>>
memory  == <<vvob_mem, vobu_map_mem>>
output  == <<stdout, stderr>>

NoMap == [nr_of_vobu_info |-> 0, vob_offset |-> 0]

Line(k, v) == [k |-> k, v |-> v]

\* -------------------------------------------------------- stdout and stderr
\* if (strcmp(base_name,"-") == 0) stdinfo = stderr; else stdinfo = stdout;
StdinfoAlwaysStdout(base) == "stdout"

StdinfoFor(base) == IF base = Dash THEN "stderr" ELSE "stdout"

Wrote(kind, p) == [kind |-> kind, program |-> p]

\* One step's output: lines on stdinfo (info), messages of the given kinds
\* on stderr, and program data on vob_fd when that is fileno(stdout)
Output(info, messages, data) ==
    /\ stdout' = stdout
                 \cup (IF info /\ stdinfo = "stdout" THEN {Wrote("info", 0)} ELSE {})
                 \cup (IF data /\ vob_fd = 1 THEN {Wrote("data", program + 1)} ELSE {})
    /\ stderr' = stderr
                 \cup (IF info /\ stdinfo = "stderr" THEN {Wrote("info", 0)} ELSE {})
                 \cup {Wrote(k, 0) : k \in messages}

\* ----------------------------------------------------------------- inputs
\* 3-byte VOBU size records: sector counts 0 and 2 (with bits set above the
\* low ten).
VobuInfos == {<<9, 0, 0>>, <<0, 252, 2>>}

\* vob_offset values below and above the point where *2048 passes 2^32
VobOffsets == {1, SectorsPerU32 + 1}

\* Program-set tables of the runs of main; find_program_text_info is also
\* applied to every table of PsiTables below.
MainPsiTables == { <<PsiEntry(1, 1), PsiEntry(0, 1)>> }

PsiFirstProgIds == {0, FirstProgIdUnset, 1, 2}
PsiCounts == {0, 1, 2, 3}
PsiQueries == {1, 2, 3, 4, 5, 6}

PsiEntries == { PsiEntry(f, n) : f \in PsiFirstProgIds, n \in PsiCounts }

PsiTables == UNION { [1 .. len -> PsiEntries] : len \in 0 .. MaxPsi }

FilesOf(names) == [name \in names |-> <<0>>]

\* Options and directories: info only; extraction to timestamp names into
\* an empty directory, or one that holds the first name of a program stamped
\* Stamps[1] and the name program 1 retries with; extraction to a given base
\* name where the name of program 1 exists; a base name that is too long;
\* extraction to stdout.
InfoOnly == <<TIMESTAMP_FMT, -1, NoFiles>>

Setups ==
    { InfoOnly,
      <<TIMESTAMP_FMT, 4, NoFiles>>,
      <<TIMESTAMP_FMT, 4, FilesOf({FirstName(strftime(1)), RetryName(strftime(1), 1)})>>,
      <<ShortName, 4, FilesOf({FirstName(ShortName \o Fmt03d(1))})>>,
      <<LongName, 4, NoFiles>>,
      <<Dash, 4, NoFiles>> }

\* The stored bytes of a 16-bit and of a 32-bit integer field
Bytes16(n) == <<n \div 256, n % 256>>
Bytes32(n) == <<n \div 16777216, (n \div 65536) % 256, (n \div 256) % 256, n % 256>>

\* The 12 bytes of mat.id
IdOf(s) == SubSeq(s, 1, IdSize)

\* An IFO file of 4096 bytes: the program-info table at 512 with one VOB
\* format (NTSC, 720x480, MPEG2, 4:3), the descriptor of program i at
\* 100*i from the program-info table, the program-set table at 2048.
GoodIfo ==
    [id                |-> IdOf(MagicLiteral),
     vmg_ea            |-> 4095,
     pgit_sa           |-> 512,
     def_psi_sa        |-> 2048,
     nr_of_pgi         |-> 1,
     nr_of_vob_formats |-> 1,
     video_attr        |-> 16384,
     vvobi             |-> [i \in 1 .. MaxPrograms |-> Bytes32(100 * i)],
     vob_attr          |-> Bytes16(0),
     nr_of_time_info   |-> Bytes16(0),
     time_offset       |-> Bytes16(5)]

\* Files that main rejects: an identifier that differs in its last byte, in
\* the case of its first byte, or ends early; no program-info table
RejectedIfos ==
    { [GoodIfo EXCEPT !.id = [@ EXCEPT ![IdSize] = "1"]],
      [GoodIfo EXCEPT !.id = [@ EXCEPT ![1] = "d"]],
      [GoodIfo EXCEPT !.id = [@ EXCEPT ![IdSize] = NUL]],
      [GoodIfo EXCEPT !.nr_of_pgi = 0] }

\* Two program-info tables; two VOB formats of a TV system that is not
\* known; descriptors with the adjacent VOB record and a time-info record;
\* every program at the same descriptor; a program-info table, a
\* program-set table or descriptors at addresses beyond the end address.
OtherIfos ==
    { [GoodIfo EXCEPT !.nr_of_pgi = 2],
      [GoodIfo EXCEPT !.nr_of_vob_formats = 2, !.video_attr = 8192],
      [GoodIfo EXCEPT !.vob_attr = Bytes16(128), !.nr_of_time_info = Bytes16(1)],
      [GoodIfo EXCEPT !.vvobi = [i \in 1 .. MaxPrograms |-> Bytes32(100)]],
      [GoodIfo EXCEPT !.pgit_sa = 5000],
      [GoodIfo EXCEPT !.def_psi_sa = 4090],
      [GoodIfo EXCEPT !.vvobi = [i \in 1 .. MaxPrograms |-> Bytes32(3570 + 3 * i)]] }

Ifos == {GoodIfo} \cup RejectedIfos \cup OtherIfos

\* The runs: every setup with the good file on a little-endian host and with
\* the rejected files; the other files without VRO file on both hosts.
Runs ==
    { r \in Setups \X Ifos \X Hosts :
        \/ r[2] = GoodIfo /\ r[3]
        \/ r[2] \in RejectedIfos /\ r[3]
        \/ r[1] = InfoOnly }

\* Timestamp fields for parse_pgtm on its own: 2024-03-05 14:30:45,
\* 0001-01-01 00:00:00, 16383-12-31 23:59:59 and their mixtures, zero years
PgtmBytes ==
    { <<b0, b1, b2, b3, b4>> :
        b0 \in {0, 31, 255}, b1 \in {0, 3, 4, 160, 255}, b2 \in {0, 63, 66, 202, 255},
        b3 \in {0, 126, 231, 255}, b4 \in {0, 173, 251, 255} }

\* Video attributes for parse_video_attr on its own: every resolution,
\* aspect, TV system and compression code, the other bits clear or set
VideoAttrs ==
    { ShiftL(compression, 14) + ShiftL(tv_sys, 12) + ShiftL(aspect, 10)
      + ShiftL(resolution, 3) + other :
        compression \in 0 .. 3, tv_sys \in 0 .. 3, aspect \in 0 .. 3,
        resolution \in 0 .. 7, other \in {0, 967} }

\* ------------------------------------------------------------------- Init
LocalsInit ==
    /\ psi = 0
    /\ tm = NotSet
    /\ vob_base = <<>>
    /\ vob_name = <<>>
    /\ vob_fd = -1
    /\ opens = <<>>
    /\ vobu_map = NoMap
    /\ vobus = 0
    /\ tot = 0
    /\ error = FALSE
    /\ ret = 0
    /\ vro_pos = OffZero
    /\ start_pos = OffZero
    /\ infos = <<>>
    /\ dst = <<>>
    /\ lines = <<>>
    /\ percent = "off"

\* Before main has mapped the IFO file
Unmapped ==
    /\ stdinfo = ""
    /\ stdout = {}
    /\ stderr = {}
    /\ vmg_size = 0
    /\ pgiti = 0
    /\ vvobi_sa = 0
    /\ outside = {}
    /\ vvob_mem = <<>>
    /\ vobu_map_mem = <<>>
    /\ vvob = 0
    /\ vobu_info = 0
    /\ result = <<>>

InitMain ==
    /\ pc = "ifo"
    /\ required_program \in 0 .. MaxPrograms + 1
    /\ nr_of_programs \in 0 .. MaxPrograms
    /\ def_psi_gi \in MainPsiTables
    /\ \E r \in Runs :
         /\ base_name = r[1][1] /\ vro_fd = r[1][2] /\ files = r[1][3]
         /\ ifo = r[2]
         /\ le = r[3]
    /\ program = 0
    /\ exit_status = "running"
    /\ arg = <<>>
    /\ LocalsInit
    /\ Unmapped

\* A decoder applied on its own
InitAlone ==
    /\ required_program = 0
    /\ nr_of_programs = 0
    /\ base_name = TIMESTAMP_FMT /\ vro_fd = -1 /\ files = NoFiles
    /\ ifo = GoodIfo
    /\ le = TRUE
    /\ exit_status = "running"
    /\ LocalsInit
    /\ Unmapped

\* find_program_text_info applied on its own to a table and a program number
InitFind ==
    /\ pc = "find_program_text_info"
    /\ def_psi_gi \in PsiTables
    /\ program \in {q - 1 : q \in PsiQueries}
    /\ arg = <<>>
    /\ InitAlone

\* parse_pgtm applied on its own to five bytes
InitPgtm ==
    /\ pc = "parse_pgtm"
    /\ def_psi_gi = <<>>
    /\ program = 0
    /\ arg \in PgtmBytes
    /\ InitAlone

\* parse_video_attr applied on its own to an attribute word
InitVideoAttr ==
    /\ pc = "parse_video_attr"
    /\ def_psi_gi = <<>>
    /\ program = 0
    /\ arg \in VideoAttrs
    /\ InitAlone

Init == InitMain \/ InitFind \/ InitPgtm \/ InitVideoAttr

\* ------------------------------------------------- what a step reads where
Region(what, at, width) == [what |-> what, at |-> at, width |-> width]

Filtered == required_program # 0 /\ program + 1 # required_program

\* The entry of the per-program offset table that vvobi_sa points at, and
\* *vvobi_sa after NTOHL(*vvobi_sa)
EntryIndex ==
    (vvobi_sa - VvobiSaTable(pgiti, ifo.nr_of_vob_formats)) \div SizeofVvobiSa + 1

EntryValue == HostValue(le, NtohInPlace(le, ifo.vvobi[EntryIndex]))

\* vvob->vob_attr after NTOHS(vvob->vob_attr)
VobAttrBytes == NtohInPlace(le, vvob_mem[vvob].vob_attr)

MapAt == VobuMapAt(vvob, HostValue(le, VobAttrBytes))

\* The table fields the step of main at pc reads or converts in place
ReadsAt ==
    IF pc = "tables"
    THEN {Region("pgiti", FromBuffer(ifo.pgit_sa), SizeofPgiti)}
    ELSE IF pc = "formats"
    THEN {Region("vob_format", pgiti + SizeofPgiti,
                 ifo.nr_of_vob_formats * SizeofVobFormat),
          Region("pgi_gi", pgiti + SizeofPgiti + ifo.nr_of_vob_formats * SizeofVobFormat,
                 SizeofPgiGi)}
    ELSE IF pc = "loop" /\ program < nr_of_programs /\ ~Filtered
    THEN LET found   == find_program_text_info(def_psi_gi, program + 1)
             visited == IF found = 0 THEN Len(def_psi_gi) ELSE found
         IN  {Region("vvobi_sa", vvobi_sa, SizeofVvobiSa),
              Region("def_psi_gi", FromBuffer(ifo.def_psi_sa),
                     SizeofPsiGi + visited * SizeofPsi)}
    ELSE IF pc = "name"
    THEN {Region("vob_timestamp", VvobAt(pgiti, EntryValue) + 2, 5)}
    ELSE IF pc = "map"
    THEN {Region("vob_attr", vvob, 2), Region("vobu_map", MapAt, SizeofVobuMap)}
    ELSE IF pc = "unit" /\ vobus < vobu_map.nr_of_vobu_info
    THEN {Region("vobu_info", vobu_info, SizeofVobuInfo)}
    ELSE {}

\* No check stands between a stored offset and the access: what lies beyond
\* the mapped vmg_size bytes is read all the same
Beyond(r) == r.at + r.width > vmg_size

Touch == outside' = outside \cup {r.what : r \in {x \in ReadsAt : Beyond(x)}}

\* ---------------------------------------------------------------- actions
Exit ==
    /\ pc' = "exit"
    /\ exit_status' = "EXIT_FAILURE"

\* stdinfo, the identifier, vmg_size and the mapping of the whole file
\* (open and mmap are taken to succeed)
Header ==
    /\ pc = "ifo"
    /\ stdinfo' = StdinfoFor(base_name)
    /\ IF ~IdMatches(ifo.id)
       THEN /\ Exit
            /\ Output(FALSE, {"error"}, FALSE)
            /\ UNCHANGED vmg_size
       ELSE /\ pc' = "tables"
            /\ vmg_size' = ifo.vmg_ea + 1
            /\ UNCHANGED <<exit_status, output>>
    /\ UNCHANGED <<options, files, pgiti, vvobi_sa, outside, memory, program, psi,
                   vvob, naming, copying, vobu_info, lines, percent, result>>

\* The format and disc info lines, pgiti, def_psi_gi and the number of
\* program-info tables
Tables ==
    /\ pc = "tables"
    /\ pgiti' = FromBuffer(ifo.pgit_sa)
    /\ Touch
    /\ IF ifo.nr_of_pgi = 0
       THEN /\ Exit
            /\ Output(TRUE, {"error"}, FALSE)
       ELSE /\ pc' = "formats"
            /\ Output(TRUE, IF ifo.nr_of_pgi > 1 THEN {"warning"} ELSE {}, FALSE)
            /\ UNCHANGED exit_status
    /\ UNCHANGED <<options, files, stdinfo, vmg_size, vvobi_sa, memory, program,
                   psi, vvob, naming, copying, vobu_info, lines, percent, result>>

\* The VOB formats, the number of programs and the per-program offset table
Formats ==
    /\ pc = "formats"
    /\ Touch
    /\ Output(TRUE,
              IF ifo.nr_of_vob_formats > 0 /\ ~parse_video_attr(ifo.video_attr).ret
              THEN {"error"} ELSE {},
              FALSE)
    /\ vvobi_sa' = VvobiSaTable(pgiti, ifo.nr_of_vob_formats)
    /\ pc' = "start"
    /\ UNCHANGED <<options, files, tables, memory, program, psi, vvob, naming,
                   copying, vobu_info, lines, percent, exit_status, result>>

\* if (required_program && required_program > pgi_gi->nr_of_programs) exit
Start ==
    /\ pc = "start"
    /\ IF required_program # 0 /\ required_program > nr_of_programs
       THEN Exit /\ Output(FALSE, {"error"}, FALSE)
       ELSE pc' = "loop" /\ UNCHANGED <<exit_status, output>>
    /\ UNCHANGED <<options, files, tables, vvobi_sa, outside, memory, program, psi,
                   vvob, naming, copying, vobu_info, lines, percent, result>>

\* for (program=0; program<nr_of_programs; program++): the filter
LoopSkip ==
    /\ pc = "loop"
    /\ program < nr_of_programs
    /\ Filtered
    /\ vvobi_sa' = SkipEntry(vvobi_sa)
    /\ program' = program + 1
    /\ UNCHANGED <<pc, options, files, tables, output, outside, memory, psi, vvob,
                   naming, copying, vobu_info, lines, percent, exit_status, result>>

\* NTOHL(*vvobi_sa); psi = find_program_text_info(def_psi_gi, program+1);
\* print_label or "label: Couldn't find. Please report."
Label ==
    /\ pc = "loop"
    /\ program < nr_of_programs
    /\ ~Filtered
    /\ Touch
    /\ psi' = find_program_text_info(def_psi_gi, program + 1)
    /\ lines' = Append(lines, IF psi' # 0 THEN Line("label", psi')
                                          ELSE Line("label not found", 0))
    /\ Output(TRUE, {}, FALSE)
    /\ pc' = "name"
    /\ UNCHANGED <<options, files, tables, vvobi_sa, memory, program, vvob, naming,
                   copying, vobu_info, percent, exit_status, result>>

\* return EXIT_SUCCESS
Finish ==
    /\ pc = "loop"
    /\ program >= nr_of_programs
    /\ pc' = "done"
    /\ exit_status' = "EXIT_SUCCESS"
    /\ UNCHANGED <<options, files, tables, output, vvobi_sa, outside, memory,
                   program, psi, vvob, naming, copying, vobu_info, lines, percent,
                   result>>

\* vvob, parse_pgtm and the base of the file name.  The bytes of a
\* descriptor are whatever the file holds when it is first read, and what
\* is in memory when an earlier program has read it.
Name ==
    /\ pc = "name"
    /\ Touch
    /\ vvob' = VvobAt(pgiti, EntryValue)
    /\ \E ts \in IF vvob' \in DOMAIN vvob_mem THEN {vvob_mem[vvob'].tm} ELSE Timestamps :
         /\ tm' = ts
         /\ vvob_mem' = IF vvob' \in DOMAIN vvob_mem THEN vvob_mem
                        ELSE (vvob' :> [tm |-> ts, vob_attr |-> ifo.vob_attr])
         /\ lines' = Append(lines, Line("date", ts))
         /\ LET vb == VobBase(base_name, ts, program + 1)
            IN  IF base_name # TIMESTAMP_FMT /\ strlen(vb) >= VobBaseSize
                THEN Exit /\ UNCHANGED vob_base /\ Output(TRUE, {"error"}, FALSE)
                ELSE /\ pc' = "open" /\ vob_base' = vb /\ UNCHANGED exit_status
                     /\ Output(TRUE, {}, FALSE)
    /\ UNCHANGED <<options, files, tables, vvobi_sa, vobu_map_mem, program, psi,
                   vob_name, vob_fd, opens, copying, vobu_info, percent, result>>

\* No VRO file: nothing is opened
OpenNone ==
    /\ pc = "open"
    /\ vro_fd = -1
    /\ pc' = "map"
    /\ UNCHANGED <<options, files, tables, output, vvobi_sa, outside, memory,
                   program, psi, vvob, naming, copying, vobu_info, lines, percent,
                   exit_status, result>>

\* vob_fd = fileno(stdout)
OpenStdout ==
    /\ pc = "open"
    /\ vro_fd # -1
    /\ base_name = Dash
    /\ vob_fd' = 1
    /\ pc' = "map"
    /\ UNCHANGED <<options, files, tables, output, vvobi_sa, outside, memory,
                   program, psi, vvob, tm, vob_base, vob_name, opens, copying,
                   vobu_info, lines, percent, exit_status, result>>

\* open with O_EXCL, the retry with the program number, and the continue
\* when there is no file.  denied = 1 (2): the first (second) open fails
\* for another reason than EEXIST.
OpenVob ==
    /\ pc = "open"
    /\ vro_fd # -1
    /\ base_name # Dash
    /\ \E denied \in 0 .. 2 :
         LET name1 == FirstName(vob_base)
             o1    == IF denied = 1
                      THEN [ok |-> FALSE, eexist |-> FALSE, fs |-> files]
                      ELSE OpenExcl(files, name1, program + 1)
             again == RetryOpen(o1.ok, o1.eexist, base_name)
             name2 == RetryName(vob_base, program + 1)
             o2    == IF denied = 2
                      THEN [ok |-> FALSE, eexist |-> FALSE, fs |-> o1.fs]
                      ELSE OpenExcl(o1.fs, name2, program + 1)
             last  == IF again THEN o2 ELSE o1
         IN  /\ opens' = IF again THEN <<Opened(name1, o1), Opened(name2, o2)>>
                                  ELSE <<Opened(name1, o1)>>
             /\ vob_name' = IF again THEN name2 ELSE name1
             /\ files' = last.fs
             /\ vob_fd' = IF last.ok THEN 5 ELSE -1
             /\ pc' = IF last.ok THEN "map" ELSE "next"
             /\ Output(FALSE, IF last.ok THEN {} ELSE {"error"}, FALSE)
    /\ UNCHANGED <<options, tables, vvobi_sa, outside, memory, program, psi, vvob,
                   tm, vob_base, copying, vobu_info, lines, percent, exit_status,
                   result>>

\* The VobuMap of the program (its fields converted where they lie), the
\* seek to its data, PERCENT_START
Map ==
    /\ pc = "map"
    /\ Touch
    /\ vvob_mem' = [vvob_mem EXCEPT ![vvob].vob_attr = VobAttrBytes]
    /\ \E nv \in 0 .. MaxVobus, off \in VobOffsets, seek_ok \in BOOLEAN :
         LET file  == IF MapAt \in DOMAIN vobu_map_mem
                      THEN vobu_map_mem[MapAt].file
                      ELSE [nr_of_time_info |-> ifo.nr_of_time_info,
                            nr_of_vobu_info |-> Bytes16(nv),
                            time_offset     |-> ifo.time_offset,
                            vob_offset      |-> Bytes32(off)]
             held  == IF MapAt \in DOMAIN vobu_map_mem
                      THEN vobu_map_mem[MapAt].now
                      ELSE file
             fixed == [f \in DOMAIN held |-> NtohInPlace(le, held[f])]
             map   == [nr_of_vobu_info |-> HostValue(le, fixed.nr_of_vobu_info),
                       vob_offset      |-> HostValue(le, fixed.vob_offset)]
         IN  /\ vobu_map_mem' = (MapAt :> [file |-> file, now |-> fixed])
             /\ vobu_map' = map
             /\ vobu_info' = VobuInfoAt(MapAt, HostValue(le, fixed.nr_of_time_info))
             /\ IF vro_fd # -1 /\ ~seek_ok
                THEN /\ Exit
                     /\ Output(FALSE, {"error"}, FALSE)
                     /\ UNCHANGED <<vro_pos, start_pos, percent>>
                ELSE /\ pc' = "unit"
                     /\ UNCHANGED exit_status
                     /\ IF vro_fd # -1
                        THEN /\ vro_pos' = VobSeekOffset(map.vob_offset)
                             /\ start_pos' = VobSeekOffset(map.vob_offset)
                             /\ percent' = "bar"
                             /\ Output(FALSE, {"progress"}, FALSE)
                        ELSE UNCHANGED <<vro_pos, start_pos, percent, output>>
    /\ vobus' = 0
    /\ tot' = 0
    /\ error' = FALSE
    /\ UNCHANGED <<options, files, tables, vvobi_sa, program, psi, vvob, naming, ret,
                   infos, dst, lines, result>>

\* One VOBU size record when nothing is extracted
UnitInfo ==
    /\ pc = "unit"
    /\ vobus < vobu_map.nr_of_vobu_info
    /\ vobus < MaxVobus
    /\ vro_fd = -1
    /\ Touch
    /\ \E rec \in VobuInfos :
         /\ tot' = TotAdd(tot, VobuSize(rec))
         /\ infos' = Append(infos, rec)
    /\ vobus' = vobus + 1
    /\ vobu_info' = vobu_info + SizeofVobuInfo
    /\ UNCHANGED <<pc, options, files, tables, output, vvobi_sa, memory, program,
                   psi, vvob, naming, vobu_map, error, ret, vro_pos, start_pos, dst,
                   lines, percent, exit_status, result>>

\* One VOBU size record when extracting: stream_data and what main does with
\* its result.  vro_fd is a descriptor the lseek of Map accepted, so
\* lseek(vro_fd, 0, SEEK_CUR) and the forward skip succeed.
UnitCopy ==
    /\ pc = "unit"
    /\ vobus < vobu_map.nr_of_vobu_info
    /\ vobus < MaxVobus
    /\ vro_fd # -1
    /\ Touch
    /\ vobu_info' = vobu_info + SizeofVobuInfo
    /\ \E rec \in VobuInfos :
         LET vobu_size == VobuSize(rec)
         IN  \E fault \in Faults(vobu_size) :
               LET curr_offset == vro_pos
                   r           == stream_data(vro_pos, dst, vobu_size, fault)
                   new_offset  == r.pos
                   skip_len    == SkipLen(curr_offset, vobu_size, new_offset)
               IN  /\ infos' = Append(infos, rec)
                   /\ ret' = r.ret
                   /\ dst' = r.out
                   /\ IF StreamRetExits(r.ret)
                      THEN /\ Exit
                           /\ vro_pos' = r.pos
                           /\ Output(FALSE, {"error"}, r.out # dst)
                           /\ UNCHANGED <<vobus, tot, error, percent>>
                      ELSE /\ IF r.ret = -1
                              THEN /\ error' = TRUE
                                   /\ percent' = "X"
                                   /\ vro_pos' = IF skip_len # OffZero
                                                 THEN OffAdd(new_offset, skip_len)
                                                 ELSE new_offset
                              ELSE /\ vro_pos' = r.pos
                                   /\ UNCHANGED <<error, percent>>
                           /\ Output(FALSE, {"progress"}, r.out # dst)
                           /\ tot' = TotAdd(tot, vobu_size)
                           /\ vobus' = vobus + 1
                           /\ UNCHANGED <<pc, exit_status>>
    /\ UNCHANGED <<options, files, tables, vvobi_sa, memory, program, psi, vvob,
                   naming, vobu_map, start_pos, lines, result>>

\* After the last record: PERCENT_END or the display left showing the read
\* errors, close, and the size line
EndProgram ==
    /\ pc = "unit"
    /\ vobus >= vobu_map.nr_of_vobu_info
    /\ percent' = IF vro_fd = -1 THEN percent
                  ELSE IF error THEN "errors shown" ELSE "cleared"
    /\ lines' = Append(lines, Line("size", tot * DVD_SECTOR_SIZE))
    /\ Output(TRUE, IF vro_fd = -1 THEN {} ELSE {"progress"}, FALSE)
    /\ pc' = "next"
    /\ UNCHANGED <<options, files, tables, vvobi_sa, outside, memory, program, psi,
                   vvob, naming, copying, vobu_info, exit_status, result>>

\* A later entry of the per-program offset table resolves to the descriptor
\* of this program, and main will come to that entry
ReadAgain ==
    /\ required_program = 0
    /\ \E j \in program + 2 .. nr_of_programs :
         VvobAt(pgiti, BigEndian(ifo.vvobi[j])) = vvob

\* vvobi_sa++ and program++, after the size line or the continue of a
\* program whose file could not be created; the locals of the body end.
\* Of the memory only what a later program reads is kept.
NextProgram ==
    /\ pc = "next"
    /\ vvobi_sa' = vvobi_sa + SizeofVvobiSa
    /\ program' = program + 1
    /\ pc' = "loop"
    /\ IF ReadAgain THEN UNCHANGED memory
                    ELSE vvob_mem' = <<>> /\ vobu_map_mem' = <<>>
    /\ psi' = 0
    /\ vvob' = 0
    /\ tm' = NotSet
    /\ vob_base' = <<>>
    /\ vob_name' = <<>>
    /\ vob_fd' = -1
    /\ opens' = <<>>
    /\ vobu_map' = NoMap
    /\ vobu_info' = 0
    /\ vobus' = 0
    /\ tot' = 0
    /\ error' = FALSE
    /\ ret' = 0
    /\ vro_pos' = OffZero
    /\ start_pos' = OffZero
    /\ infos' = <<>>
    /\ dst' = <<>>
    /\ lines' = <<>>
    /\ UNCHANGED <<options, files, tables, output, outside, percent, exit_status,
                   result>>

\* An access beyond the mapped pages ends the run with a signal
Segv ==
    /\ \E r \in ReadsAt : Beyond(r)
    /\ pc' = "killed"
    /\ exit_status' = "SIGSEGV"
    /\ UNCHANGED <<options, files, tables, output, vvobi_sa, outside, memory,
                   program, psi, vvob, naming, copying, vobu_info, lines, percent,
                   result>>

\* One call of find_program_text_info(def_psi_gi, program+1) on its own
FindCall ==
    /\ pc = "find_program_text_info"
    /\ psi' = find_program_text_info(def_psi_gi, program + 1)
    /\ pc' = "find returned"
    /\ UNCHANGED <<options, files, tables, output, vvobi_sa, outside, memory,
                   program, vvob, naming, copying, vobu_info, lines, percent,
                   exit_status, result>>

\* One call of parse_pgtm on its own
PgtmCall ==
    /\ pc = "parse_pgtm"
    /\ result' = PgtmDecode(arg)
    /\ pc' = "parse_pgtm returned"
    /\ UNCHANGED <<options, files, tables, output, vvobi_sa, outside, memory,
                   program, psi, vvob, naming, copying, vobu_info, lines, percent,
                   exit_status>>

\* One call of parse_video_attr on its own
VideoAttrCall ==
    /\ pc = "parse_video_attr"
    /\ result' = parse_video_attr(arg)
    /\ pc' = "parse_video_attr returned"
    /\ UNCHANGED <<options, files, tables, output, vvobi_sa, outside, memory,
                   program, psi, vvob, naming, copying, vobu_info, lines, percent,
                   exit_status>>

Next ==
    \/ Header
    \/ Tables
    \/ Formats
    \/ Start
    \/ LoopSkip
    \/ Label
    \/ Finish
    \/ Name
    \/ OpenNone
    \/ OpenStdout
    \/ OpenVob
    \/ Map
    \/ UnitInfo
    \/ UnitCopy
    \/ EndProgram
    \/ NextProgram
    \/ Segv
    \/ FindCall
    \/ PgtmCall
    \/ VideoAttrCall

Spec == Init /\ [][Next]_vars



\* ================================================================= claims
\* What the claims speak of, stated apart from the operators above.

\* The sector count a size record declares: the low 10 bits of the big-endian
\* 16-bit value in its last two bytes
DeclaredCount(rec) == (256 * rec[2] + rec[3]) % 1024

RECURSIVE DeclaredSectors(_)
DeclaredSectors(recs) ==
    IF recs = <<>> THEN 0 ELSE DeclaredCount(Head(recs)) + DeclaredSectors(Tail(recs))

HasLine(k) == \E i \in DOMAIN lines : lines[i].k = k

Extracting == vro_fd # -1 /\ vob_fd # -1

\* The unit loop of the program ran to its end and the size line was due
Sized == pc = "next" /\ (vro_fd = -1 \/ vob_fd # -1)

\* A step of the unit loop in which stream_data returned r
StreamStep(r) == pc = "unit" /\ infos' # infos /\ vro_fd # -1 /\ ret' = r

FullChunks(out) == Cardinality({i \in DOMAIN out : out[i].len = DVD_SECTOR_SIZE})

\* ---------------------------------------------------------------------- C1
\* C1: for every program whose unit loop main runs, the size line is printed
\* and its value is 2048 * the sum of the sector counts the program's
\* nr_of_vobu_info size records declare, with or without a VRO file and
\* whatever read faults struck.
C1_SizeIsDeclaredSum ==
    /\ Sized => /\ HasLine("size")
                /\ Len(infos) = vobu_map.nr_of_vobu_info
    /\ \A i \in DOMAIN lines :
         lines[i].k = "size" =>
           lines[i].v = DVD_SECTOR_SIZE * DeclaredSectors(infos)

\* A program of two units of two sectors each, extracted with a read fault,
\* has its size line
C1_Witness ==
    /\ Sized /\ Extracting /\ error
    /\ Len(infos) = 2
    /\ Line("size", 4 * DVD_SECTOR_SIZE) \in {lines[i] : i \in DOMAIN lines}

\* ---------------------------------------------------------------------- C2
\* C2: a step in which stream_data returns -1 leaves the run going, at the
\* next size record of the same program; the end of a program with read
\* faults leads to the next program; a run ends in failure only at the
\* identifier, the count of program-info tables, the program filter, a name
\* that is too long, the first seek or a write fault; and a run that reaches
\* the end of the loop exits with success.
C2_Step ==
    /\ StreamStep(-1) =>
         /\ exit_status' = "running"
         /\ pc' = "unit"
         /\ vobus' = vobus + 1
         /\ program' = program
    /\ (pc = "unit" /\ vobus >= vobu_map.nr_of_vobu_info /\ error) =>
         (pc' = "next" /\ exit_status' = "running")
    /\ pc = "next" => (pc' = "loop" /\ program' = program + 1)
    /\ (exit_status = "running" /\ exit_status' = "EXIT_FAILURE") =>
         (pc \in {"ifo", "tables", "start", "name", "map"} \/ StreamStep(-2))
    /\ pc' = "done" => exit_status' = "EXIT_SUCCESS"

C2_ReadFaultNotFatal == [][C2_Step]_vars

\* A run that ended with success after a program with read faults
C2_Witness ==
    /\ pc = "done"
    /\ exit_status = "EXIT_SUCCESS"
    /\ percent = "errors shown"

\* ---------------------------------------------------------------------- C3
\* C3: while a program is extracted, after unit k the position of the VRO
\* file is the position the extraction began at plus 2048 * the sum of the
\* sector counts of units 1..k, whether the units were copied or degraded.
C3_NoDrift ==
    (pc \in {"unit", "next"} /\ Extracting) =>
        /\ Len(infos) = vobus
        /\ vro_pos = OffAdd(start_pos, OffT(DeclaredSectors(infos), 0))

\* The read of the second block of a unit failed after the first was copied,
\* and a later unit has been handled as well
C3_Witness ==
    /\ pc = "unit" /\ Extracting /\ error
    /\ vobus = 2
    /\ Len(dst) = 1
    /\ vro_pos = OffAdd(start_pos, OffT(4, 0))

\* ---------------------------------------------------------------------- C4
\* C4: a step in which stream_data returns -2 ends the run with a failure
\* status: no size line is printed, the loop indices stay, the failed block
\* is the last one read and no write follows the failed one; and nothing
\* happens after an exit.
C4_Step ==
    /\ StreamStep(-2) =>
         /\ pc' = "exit"
         /\ exit_status' = "EXIT_FAILURE"
         /\ lines' = lines /\ ~HasLine("size")
         /\ vobus' = vobus /\ program' = program /\ tot' = tot
         /\ vro_pos'.off = 0
         /\ vro_pos'.sec - vro_pos.sec = (FullChunks(dst') - FullChunks(dst)) + 1
         /\ Len(dst') - FullChunks(dst') <= 1
    /\ pc # "exit"

C4_WriteFaultFatal == [][C4_Step]_vars

\* The write of the second block of a unit failed after the first was written
C4_Witness ==
    /\ pc = "exit"
    /\ ret = -2
    /\ exit_status = "EXIT_FAILURE"
    /\ FullChunks(dst) >= 1

\* ---------------------------------------------------------------------- C5
\* C5: without read or write fault, what the destination received after k
\* units is the source from byte vob_offset * 2048 on, block after block in
\* increasing order, 2048 * (the declared sectors of units 1..k) bytes.
C5_OutputIsDeclaredRange ==
    (pc \in {"unit", "next"} /\ Extracting /\ ~error) =>
        dst = [i \in 1 .. DeclaredSectors(infos) |->
                 Chunk(OffT(vobu_map.vob_offset + (i - 1), 0), DVD_SECTOR_SIZE)]

\* ---------------------------------------------------------------------- C10
\* C10: the extraction of a program begins at byte vob_offset * 2048 of the
\* VRO file, for every 32-bit vob_offset.
C10_SeekIsExactProduct ==
    (pc \in {"unit", "next"} /\ Extracting) => start_pos = OffT(vobu_map.vob_offset, 0)


\* ---------------------------------------------------------------------- C6
\* The table entries before entry i
Before(i) == 1 .. i - 1

Inferred(tab, i) ==
    tab[i].first_prog_id = 0 \/ tab[i].first_prog_id = FirstProgIdUnset

RECURSIVE CountSum(_, _)
CountSum(tab, js) ==
    IF js = {} THEN 0
    ELSE LET j == CHOOSE x \in js : TRUE
         IN  tab[j].nr_of_programs + CountSum(tab, js \ {j})

\* The first entry, in stored order, whose interval from start(i) to
\* start(i) + nr_of_programs - 1 holds program q; 0 when there is none
FirstHolding(tab, q, start(_)) ==
    LET holds == {i \in DOMAIN tab :
                    start(i) <= q /\ q <= start(i) + tab[i].nr_of_programs - 1}
    IN  IF holds = {} THEN 0
        ELSE CHOOSE i \in holds : \A j \in holds : i <= j

\* The starting index as C6 has it: one past the programs of all earlier entries
StartAfterAll(tab, i) ==
    IF Inferred(tab, i) THEN 1 + CountSum(tab, Before(i)) ELSE tab[i].first_prog_id

PsiResolved == pc \in {"find returned", "name", "open", "map", "unit", "next"}

\* C6: an entry whose first-program-index is 0 or 0xFFFF starts one past the
\* program count of all earlier entries, explicit ones included; so with
\* A = (first 1, count 3), B = (first 0, count 2) program 4 resolves to B and
\* program 6 to no entry.
C6_InferredStartCountsAllEarlier ==
    PsiResolved =>
      LET start(i) == StartAfterAll(def_psi_gi, i)
      IN  psi = FirstHolding(def_psi_gi, program + 1, start)

\* ---------------------------------------------------------------------- C7
\* The starting index as find_program_text_info has it: one past the programs
\* of the earlier entries that stored no first index themselves
StartAfterInferred(tab, i) ==
    IF Inferred(tab, i)
    THEN 1 + CountSum(tab, {j \in Before(i) : Inferred(tab, j)})
    ELSE tab[i].first_prog_id

\* C7: find_program_text_info returns the first entry in stored order whose
\* interval holds the program, and none when no interval does; when it
\* returns none main prints the 'label not found' line and goes on to the
\* date line, the extraction and the size line of that program.
C7_FirstHoldingEntry ==
    /\ PsiResolved =>
         LET start(i) == StartAfterInferred(def_psi_gi, i)
         IN  psi = FirstHolding(def_psi_gi, program + 1, start)
    /\ (pc \in {"name", "open", "map", "unit", "next"} /\ psi = 0) =>
         /\ lines[1] = Line("label not found", 0)
         /\ exit_status = "running"
    /\ (Sized /\ psi = 0) =>
         /\ Len(lines) = 3
         /\ lines[2].k = "date"
         /\ lines[3] = Line("size", DVD_SECTOR_SIZE * DeclaredSectors(infos))
         /\ Extracting => Len(infos) = vobu_map.nr_of_vobu_info

\* A program without label was extracted and has its size line
C7_Witness ==
    /\ Sized /\ Extracting /\ psi = 0
    /\ FullChunks(dst) = 2
    /\ HasLine("size")

\* Two entries hold the program and the first one is returned
C7_WitnessFirst ==
    /\ pc = "find returned"
    /\ psi = 1
    /\ Len(def_psi_gi) = 2
    /\ LET start(i) == StartAfterInferred(def_psi_gi, i)
       IN  /\ start(2) <= program + 1
           /\ program + 1 <= start(2) + def_psi_gi[2].nr_of_programs - 1

\* ---------------------------------------------------------------------- C8
OpenStep == pc = "open" /\ vro_fd # -1 /\ base_name # Dash

NoFileStep == OpenStep /\ opens'[Len(opens')].errno # ""

\* C8 as stated: a name that exists is retried exactly once with a suffix,
\* and when the retried name exists as well the run ends in failure.
C8_Step ==
    (OpenStep /\ FirstName(vob_base) \in DOMAIN files) =>
        /\ Len(opens') = 2
        /\ opens'[2].name = RetryName(vob_base, program + 1)
        /\ RetryName(vob_base, program + 1) \in DOMAIN files =>
             (pc' = "exit" /\ exit_status' = "EXIT_FAILURE")

C8_SecondCollisionFatal == [][C8_Step]_vars

\* C8 amended: the first name is tried; when that open fails with EEXIST and
\* the name is the timestamp one, the name with the program number is tried,
\* once; with a given base name there is no second try.  A name that exists
\* is never opened.  When the last try failed the program is skipped: no
\* file, no data, no size line, and the run goes on with the next program.
C8_AmendedStep ==
    OpenStep =>
        /\ opens'[1].name = FirstName(vob_base)
        /\ IF opens'[1].errno = "EEXIST" /\ base_name = TIMESTAMP_FMT
           THEN /\ Len(opens') = 2
                /\ opens'[2].name = RetryName(vob_base, program + 1)
           ELSE Len(opens') = 1
        /\ \A i \in DOMAIN opens' :
             opens'[i].name \in DOMAIN files => opens'[i].errno # ""
        /\ IF NoFileStep
           THEN /\ pc' = "next"
                /\ exit_status' = "running"
                /\ vob_fd' = -1
                /\ files' = files
                /\ dst' = <<>>
                /\ ~\E i \in DOMAIN lines' : lines'[i].k = "size"
           ELSE /\ pc' = "map"
                /\ vob_fd' = 5

C8_RetryOnceThenSkip == [][C8_AmendedStep]_vars

\* Both names of a program existed: it was skipped and the run goes on
C8_Witness ==
    /\ pc = "next"
    /\ exit_status = "running"
    /\ Len(opens) = 2
    /\ opens[1].errno = "EEXIST" /\ opens[2].errno = "EEXIST"

\* ---------------------------------------------------------------------- C9
\* C9: with timestamp naming every file of the directory has one maker, a
\* program of this run or whoever made it before the run, and the file a
\* program writes to is one that this program made; so two programs never
\* write to the same name nor to a file that was there before.
C9_DistinctOutputs ==
    base_name = TIMESTAMP_FMT =>
        /\ \A name \in DOMAIN files : Len(files[name]) = 1
        /\ vob_fd = 5 => /\ vob_name \in DOMAIN files
                         /\ files[vob_name] = <<program + 1>>
        /\ \A p \in 1 .. program :
             Cardinality({name \in DOMAIN files : p \in {files[name][i] : i \in DOMAIN files[name]}}) <= 1

\* Programs 1 and 2 bear the same timestamp and both are extracted
C9_Witness ==
    /\ base_name = TIMESTAMP_FMT
    /\ program = 1 /\ tm = 1
    /\ pc = "next" /\ FullChunks(dst) = 2
    /\ FirstName(strftime(1)) \in DOMAIN files
    /\ files[FirstName(strftime(1))] = <<1>>
    /\ vob_name = RetryName(strftime(1), 2)
    /\ files[vob_name] = <<2>>



\* ---------------------------------------------------------------------- C11
Failed == pc = "exit" /\ exit_status = "EXIT_FAILURE"

Killed == pc = "killed"

\* No program has been resolved and no output file has been made
NothingDone ==
    /\ program = 0 /\ psi = 0 /\ vvob = 0
    /\ lines = <<>> /\ opens = <<>> /\ dst = <<>>
    /\ \A name \in DOMAIN files : files[name] = <<0>>
    /\ ~\E w \in stdout : w.kind = "data"

\* C11: an identifier that is not the 12 bytes "DVD_RTR_VMG0" ends the run
\* in failure, and so does a count of program-info tables of 0, with no
\* program resolved and no file made; a count above 1 adds a warning on
\* standard error and nothing else to what a count of 1 does: the table at
\* pgit_sa is the one processed, from then on to the end of the run.
C11_Step ==
    /\ pc = "ifo" =>
         /\ IF ifo.id = <<"D", "V", "D", "_", "R", "T", "R", "_", "V", "M", "G", "0">>
            THEN pc' = "tables" /\ exit_status' = "running"
            ELSE Failed'
         /\ NothingDone'
    /\ (pc = "tables" /\ ~Killed') =>
         /\ IF ifo.nr_of_pgi = 0
            THEN Failed'
            ELSE /\ pc' = "formats" /\ exit_status' = "running"
                 /\ pgiti' = ifo.pgit_sa
                 /\ stdout' \ stdout \subseteq {Wrote("info", 0)}
                 /\ stderr' \ stderr \subseteq {Wrote("info", 0), Wrote("warning", 0)}
                 /\ Wrote("warning", 0) \in stderr' <=> ifo.nr_of_pgi > 1
         /\ NothingDone'
    /\ pc \notin {"ifo", "tables"} => pgiti' = pgiti
    /\ ~Failed

C11_BadIdOrNoTableFatal == [][C11_Step]_vars

\* A run that was to extract ended at an identifier whose last byte differs
C11_Witness ==
    /\ Failed
    /\ vro_fd # -1
    /\ ifo.id[12] = "1"
    /\ SubSeq(ifo.id, 1, 11) = <<"D", "V", "D", "_", "R", "T", "R", "_", "V", "M", "G">>
    /\ vmg_size = 0
    /\ NothingDone


\* ---------------------------------------------------------------------- C12
\* C12: a step of main that reads a table field through a stored offset
\* (program-info table, program-set table, per-program offset, descriptor,
\* VobuMap, VOBU size record) whose address, or address plus width, lies
\* beyond the vmg_ea + 1 bytes of the buffer ends the run, and reads or
\* writes nothing there.
C12_Step ==
    (\E r \in ReadsAt : r.at + r.width > ifo.vmg_ea + 1) =>
        /\ Failed' \/ Killed'
        /\ outside' = outside

C12_AddressesChecked == [][C12_Step]_vars

\* ---------------------------------------------------------------------- C13
InLoop == pc \in {"loop", "name", "open", "map", "unit", "next"}

InProgram == pc \in {"name", "open", "map", "unit", "next"}

\* A step that passes over a program without doing anything for it
PassedOver ==
    /\ pc = "loop" /\ pc' = "loop"
    /\ required_program # 0 /\ required_program # program + 1
    /\ UNCHANGED <<files, stdout, stderr, lines, psi, vvob, tm, opens, dst, outside>>

\* C13: a filter above the program count ends the run in failure before
\* anything is done for a program; with a filter N within the count the
\* programs before and after N are passed over untouched and program N is
\* processed, with the N-th entry of the per-program offset table; with no
\* filter the programs are processed one after the other from 1 to the
\* count, each with its own entry; the run is done when the index has
\* passed the count.
C13_Step ==
    /\ pc = "start" =>
         IF required_program >= 1 /\ required_program > nr_of_programs
         THEN Failed' /\ NothingDone'
         ELSE pc' = "loop" /\ program' = 0
    /\ (pc = "loop" /\ program < nr_of_programs /\ ~Killed') =>
         IF required_program = 0 \/ required_program = program + 1
         THEN pc' = "name" /\ program' = program /\ lines' # <<>>
         ELSE PassedOver
    /\ InProgram' =>
         /\ required_program \in {0, program' + 1}
         /\ program' < nr_of_programs
         /\ vvobi_sa' = ifo.pgit_sa + 8 + 60 * ifo.nr_of_vob_formats + 2 + 4 * program'
    /\ program' # program =>
         /\ program' = program + 1
         /\ pc = "next" \/ PassedOver
    /\ pc' = "done" =>
         /\ pc = "loop" /\ program = nr_of_programs
         /\ exit_status' = "EXIT_SUCCESS"

C13_FilterSelectsOneProgram == [][C13_Step]_vars

\* With the filter at 2 of 2 programs, program 2 alone has a file
C13_Witness ==
    /\ pc = "done"
    /\ required_program = 2 /\ nr_of_programs = 2
    /\ vro_fd # -1
    /\ vvobi_sa = ifo.pgit_sa + 8 + 60 * ifo.nr_of_vob_formats + 2 + 4 * 2
    /\ \E name \in DOMAIN files : files[name] = <<2>>
    /\ ~\E name \in DOMAIN files : files[name] = <<1>>


\* ---------------------------------------------------------------------- C14
\* The w bits of n, most significant first
Bits(n, w) == [i \in 1 .. w |-> (n \div 2 ^ (w - i)) % 2]

\* The byte made by the eight bits of b from position i on
ByteAt(b, i) ==
    128 * b[i] + 64 * b[i + 1] + 32 * b[i + 2] + 16 * b[i + 3]
    + 8 * b[i + 4] + 4 * b[i + 5] + 2 * b[i + 6] + b[i + 7]

\* The 40-bit packing: year 14 bits, month 4, day 5, hour 5, minute 6,
\* second 6, most significant first, as 5 bytes
Packed(year, month, day, hour, min, sec) ==
    LET b == Bits(year, 14) \o Bits(month, 4) \o Bits(day, 5) \o Bits(hour, 5)
             \o Bits(min, 6) \o Bits(sec, 6)
    IN  <<ByteAt(b, 1), ByteAt(b, 9), ByteAt(b, 17), ByteAt(b, 25), ByteAt(b, 33)>>

\* The six fields a struct tm stands for
FieldsOf(t) ==
    [year |-> t.tm_year + 1900, month |-> t.tm_mon + 1, day |-> t.tm_mday,
     hour |-> t.tm_hour, min |-> t.tm_min, sec |-> t.tm_sec]

\* C14: five bytes whose 14 year bits are all zero decode to "unset"
\* whatever the other bits are; any other five bytes decode to six fields,
\* each within the width of its bit field and the year in 1..16383, whose
\* packing is those five bytes again: so decoding the packing of any six
\* fields gives back these fields (the packing of distinct fields within
\* the widths is distinct), as for 2024-03-05 14:30:45.
C14_DecodeInvertsPacking ==
    pc = "parse_pgtm returned" =>
        /\ IF arg[1] = 0 /\ arg[2] < 4
           THEN result.ret = FALSE
           ELSE LET f == FieldsOf(result.tm)
                IN  /\ result.ret = TRUE
                    /\ f.year \in 1 .. 16383
                    /\ f.month \in 0 .. 15 /\ f.day \in 0 .. 31 /\ f.hour \in 0 .. 31
                    /\ f.min \in 0 .. 63 /\ f.sec \in 0 .. 63
                    /\ Packed(f.year, f.month, f.day, f.hour, f.min, f.sec) = arg
        /\ arg = Packed(2024, 3, 5, 14, 30, 45) =>
             FieldsOf(result.tm) = [year |-> 2024, month |-> 3, day |-> 5,
                                    hour |-> 14, min |-> 30, sec |-> 45]
        /\ arg = Packed(16383, 12, 31, 23, 59, 59) =>
             FieldsOf(result.tm) = [year |-> 16383, month |-> 12, day |-> 31,
                                    hour |-> 23, min |-> 59, sec |-> 59]

\* The packing of 2024-03-05 14:30:45 was decoded
C14_Witness ==
    /\ pc = "parse_pgtm returned"
    /\ arg = <<31, 160, 202, 231, 173>>
    /\ arg = Packed(2024, 3, 5, 14, 30, 45)
    /\ result.ret = TRUE
    /\ result.tm.tm_year = 124 /\ result.tm.tm_mday = 5

\* ---------------------------------------------------------------------- C16
\* The TV-system code (bits 12-13) and the resolution code (bits 3-5)
TvCode(a) == (a \div 4096) % 4
ResolutionCode(a) == (a \div 8) % 8

\* C16: TV-system code 0 is NTSC with 480 lines and 1 is PAL with 576; any
\* other code makes parse_video_attr return false; with code 0 or 1 it
\* returns true whatever the other codes are, resolution codes 0..5 give
\* 720, 704, 352, 352 with half the lines, 544, 480 columns, and codes
\* 6 and 7 give the 'Unknown' resolution line.
C16_VideoAttrDecoded ==
    pc = "parse_video_attr returned" =>
        LET tv    == TvCode(arg)
            res   == ResolutionCode(arg)
            lines_of_tv == IF tv = 0 THEN 480 ELSE 576
            horiz == <<720, 704, 352, 352, 544, 480>>
        IN  /\ result.ret <=> tv \in {0, 1}
            /\ tv = 0 => result.tv_system = "NTSC"
            /\ tv = 1 => result.tv_system = "PAL"
            /\ (tv \in {0, 1} /\ res \in 0 .. 5) =>
                 /\ result.resolution = "known"
                 /\ result.horiz = horiz[res + 1]
                 /\ result.vert = IF res = 3 THEN lines_of_tv \div 2 ELSE lines_of_tv
            /\ (tv \in {0, 1} /\ res \in {6, 7}) => result.resolution = "Unknown"

\* A PAL attribute with resolution code 3 was decoded: 352x288
C16_Witness ==
    /\ pc = "parse_video_attr returned"
    /\ TvCode(arg) = 1 /\ ResolutionCode(arg) = 3
    /\ arg >= 32768
    /\ result.ret = TRUE
    /\ result.horiz = 352 /\ result.vert = 288


\* ---------------------------------------------------------------------- C15
\* The programs whose data went to standard output
OnStdout == {w.program : w \in {x \in stdout : x.kind = "data"}}

\* C15: with the base name "-" the data of at most one program is written
\* to standard output in a run.
C15_OneProgramOnStdout ==
    base_name = Dash => Cardinality(OnStdout) <= 1

\* ---------------------------------------------------------------------- C17
\* C17: the program-info table is at buffer start + pgit_sa and the
\* program-set table is read at buffer start + def_psi_sa; the offset of
\* program i is read at program-info table + 8 + 60 * nr_of_vob_formats + 2
\* + 4 * (i - 1); the descriptor of program i is at program-info table +
\* that stored offset.
C17_BasesOfAddresses ==
    /\ (InLoop \/ pc \in {"formats", "start"}) => pgiti = 0 + ifo.pgit_sa
    /\ \A r \in ReadsAt :
         /\ r.what = "def_psi_gi" => r.at = 0 + ifo.def_psi_sa
         /\ r.what = "vvobi_sa" =>
              r.at = pgiti + 8 + 60 * ifo.nr_of_vob_formats + 2 + 4 * ((program + 1) - 1)
         /\ r.what = "vob_timestamp" =>
              r.at = pgiti + BigEndian(ifo.vvobi[program + 1]) + 2
         /\ r.what = "vob_attr" => r.at = pgiti + BigEndian(ifo.vvobi[program + 1])
    /\ (pc \in {"open", "map", "unit"} \/ (pc = "next" /\ vvob # 0)) =>
         vvob = pgiti + BigEndian(ifo.vvobi[program + 1])

\* Program 2 of a file with two VOB formats: its offset was read at
\* 512 + 8 + 120 + 2 + 4 and its descriptor is at 512 + 200
C17_Witness ==
    /\ pc = "map"
    /\ program = 1
    /\ ifo.nr_of_vob_formats = 2 /\ ifo.pgit_sa = 512
    /\ vvobi_sa = 646
    /\ vvob = 712

\* ---------------------------------------------------------------------- C18
\* C18: the fields of a descriptor and of its VobuMap that main converts
\* where they lie are converted once: what main uses of them is the value of
\* the big-endian bytes the file holds, also for a descriptor that more than
\* one entry of the per-program offset table resolves to.
C18_ConvertedOnce ==
    (pc = "unit" /\ MapAt \in DOMAIN vobu_map_mem) =>
        LET file == vobu_map_mem[MapAt].file
            now  == vobu_map_mem[MapAt].now
        IN  /\ vobu_map.nr_of_vobu_info = BigEndian(file.nr_of_vobu_info)
            /\ vobu_map.vob_offset = BigEndian(file.vob_offset)
            /\ HostValue(le, now.nr_of_time_info) = BigEndian(file.nr_of_time_info)
            /\ HostValue(le, now.time_offset) = BigEndian(file.time_offset)
            /\ HostValue(le, vvob_mem[vvob].vob_attr) = BigEndian(ifo.vob_attr)


\* ---------------------------------------------------------------------- C19
RECURSIVE Bytes(_)
Bytes(out) == IF out = <<>> THEN 0 ELSE Head(out).len + Bytes(Tail(out))

IsPrefix(s, t) == Len(s) <= Len(t) /\ SubSeq(t, 1, Len(s)) = s

\* What holds of the destination of a program whatever faults strike: it
\* only grows, by whole blocks read from where the source stood, and never
\* beyond what the units handled so far declare; a unit with a read fault
\* adds fewer blocks than it declares and a unit without fault adds them
\* all; and when the size line is due the destination has the reported
\* length exactly when no read fault struck.
C19_Common ==
    /\ Bytes(dst') <= 2048 * DeclaredSectors(infos')
    /\ (pc = "unit" /\ infos' # infos /\ vro_fd # -1) =>
         LET declared == DeclaredCount(infos'[Len(infos')])
             added    == Len(dst') - Len(dst)
         IN  /\ IsPrefix(dst, dst')
             /\ \A i \in Len(dst) + 1 .. Len(dst') :
                  dst'[i].at = OffAdd(vro_pos, OffT(i - Len(dst) - 1, 0))
             /\ ret' = -1 => /\ added < declared
                             /\ \A i \in Len(dst) + 1 .. Len(dst') : dst'[i].len = 2048
             /\ ret' = 0 => added = declared
    /\ (Sized /\ Extracting)' =>
         (Bytes(dst') = 2048 * DeclaredSectors(infos') <=> ~error')
    /\ (Sized /\ Extracting)' => lines'[Len(lines')] = Line("size", 2048 * DeclaredSectors(infos'))

\* C19 as stated: at every point the destination holds a whole number of
\* blocks of 2048 bytes.
C19_Step ==
    /\ Bytes(dst') % 2048 = 0
    /\ C19_Common

C19_WholeBlocksOnly == [][C19_Step]_vars

\* C19 amended: the destination holds a whole number of blocks as long as
\* no write has failed; the write that fails may leave a part of its block,
\* and it ends the run.
C19_AmendedStep ==
    /\ ret' # -2 => Bytes(dst') % 2048 = 0
    /\ ret' = -2 => /\ Failed'
                    /\ Bytes(dst') - (Bytes(dst') % 2048) = 2048 * FullChunks(dst')
    /\ C19_Common

C19_WholeBlocksUntilWriteFault == [][C19_AmendedStep]_vars

\* A unit of two blocks whose second read came up short: one block written,
\* the size line says two
C19_Witness ==
    /\ Sized /\ Extracting /\ error
    /\ Len(infos) = 1 /\ DeclaredSectors(infos) = 2
    /\ Bytes(dst) = 2048
    /\ HasLine("size")

\* ---------------------------------------------------------------------- C20
Kinds(log) == {w.kind : w \in log}

\* C20: with the base name "-" nothing but program data is ever on standard
\* output, and the lines of information, the progress display, the warnings
\* and the error messages are on standard error; with another base name the
\* lines of information are on standard output, nothing else is, and
\* program data goes to a file this run created and nowhere else.
C20_StreamsKeptApart ==
    /\ Kinds(stdout) \cap {"progress", "error", "warning"} = {}
    /\ base_name = Dash =>
         /\ Kinds(stdout) \subseteq {"data"}
         /\ lines # <<>> => "info" \in Kinds(stderr)
         /\ dst # <<>> => vob_fd = 1 /\ Wrote("data", program + 1) \in stdout
         /\ files = NoFiles
    /\ base_name # Dash =>
         /\ Kinds(stdout) \subseteq {"info"}
         /\ "info" \notin Kinds(stderr)
         /\ lines # <<>> => "info" \in Kinds(stdout)
         /\ dst # <<>> => /\ vob_fd = 5
                          /\ vob_name \in DOMAIN files
                          /\ files[vob_name] = <<program + 1>>
    /\ percent # "off" => "progress" \in Kinds(stderr)
    /\ (Failed /\ ~InLoop) => "error" \in Kinds(stderr)

\* A program was extracted to standard output: its data is there, its lines
\* and the progress display are on standard error
C20_Witness ==
    /\ base_name = Dash
    /\ pc = "next"
    /\ FullChunks(dst) = 2
    /\ stdout = {Wrote("data", program + 1)}
    /\ HasLine("size")
    /\ {"info", "progress"} \subseteq Kinds(stderr)


=============================================================================
